---- MODULE Spec2Model ----
(***************************************************************************)
(* State-machine models of three exercise scripts of the repository:      *)
(*   - split_file   (02-data-in-more-complex-formats/split_data.py)       *)
(*   - process_file (02-data-in-more-complex-formats/process.py)          *)
(*   - process_map  (06-openstreetmap-data/users.py and users.py)         *)
(* Each script has its own specification (SpecSplit, SpecProcess,          *)
(* SpecUsers); the variables of the other scripts stay at their idle      *)
(* values.                                                                 *)
(***************************************************************************)
EXTENDS Integers, Sequences, FiniteSets, TLC

VARIABLES
    \* ---- split_file ----
    fs,        \* the file system: file name -> sequence of lines
    pos,       \* 1-based index of the next line the read handle yields
    lines,     \* the accumulation buffer `lines`
    n,         \* the counter `n`
    pc,        \* position of split_file: "idle", "open", "scan", "done"
    out,       \* what has been printed on stdout
    exc,       \* the exception raised inside the try block, "none" if none
    raised,    \* TRUE when an exception left split_file to its caller
    created,   \* names opened for writing, in the order of the open calls
    \* ---- process_file ----
    rows,      \* the <tr class="dataTDRight"> rows still to visit (cell texts)
    table,     \* all rows of the table, as found by find_all
    heap,      \* the dictionaries allocated so far: reference -> dictionary
    data,      \* the list `data`: a sequence of references into heap
    ppc,       \* position of process_file: "idle", "loop", "done"
    \* ---- process_map ----
    script,    \* which users.py is running: "osm06" or "top"
    parent,    \* the document: parent[i] is the parent of element i, 0 for the root
    attrib,    \* attrib[i]: the set of <<key, value>> attributes of element i
    events,    \* the elements iterparse still has to yield, in order
    users,     \* the variable `users` of process_map
    upc        \* position of process_map: "idle", "loop", "done"

splitVars == <<fs, pos, lines, n, pc, out, exc, raised, created>>
procVars  == <<rows, table, heap, data, ppc>>
userVars  == <<script, parent, attrib, events, users, upc>>
vars      == <<fs, pos, lines, n, pc, out, exc, raised, created,
               rows, table, heap, data, ppc,
               script, parent, attrib, events, users, upc>>

\* Longest input file, in lines.
MaxLen == 4

----------------------------------------------------------------------------
(* Generic helpers *)

\* All sequences over S of length 0..k.
SeqUpTo(S, k) == UNION { [1..m -> S] : m \in 0..k }

\* Python's s.startswith(p) on sequences of characters.
StartsWith(s, p) == Len(s) >= Len(p) /\ SubSeq(s, 1, Len(p)) = p

----------------------------------------------------------------------------
(* split_file *)

\* The literal "<?xml" of lines 31, 32 and 34.
Prefix == <<"<", "?", "x", "m", "l">>

\* The lines an input file is made of: two different declaration lines, a
\* line that stops one character short of the prefix, a line that holds the
\* prefix but not at its start, and an ordinary line.
DeclA == Prefix \o <<" ", "1">>
DeclB == Prefix
Near  == <<"<", "?", "x", "m">>
Inner == <<" ">> \o Prefix
Body  == <<"<", "a", ">">>
LineSet == {DeclA, DeclB, Near, Inner, Body}

\* PATENTS, the file name test() passes to split_file.
PATENTS == "patent.data"

\* The name of the source file, and "{}-{}".format(filename, k): a name is
\* the tuple of the fields that format() joins.
SourceName == <<PATENTS>>
FormatName(filename, k) == <<filename, k>>

IsDeclBroken(line) == \E i \in 1..Len(line) : StartsWith(SubSeq(line, i, Len(line)), Prefix)
\* line.startswith("<?xml")
IsDecl(line) == StartsWith(line, Prefix)

StartsFirstBroken(line, k) == IsDecl(line)
\* line 31: line.startswith("<?xml") and n == 0
StartsFirst(line, k) == IsDecl(line) /\ k = 0

FlushBodyBroken(ls) == ls
\* lines 34-36: what a flush in the loop writes, lines[:-1] when the last
\* buffered line is a declaration line and nothing otherwise.
FlushBody(ls) ==
    IF IsDecl(ls[Len(ls)]) THEN SubSeq(ls, 1, Len(ls) - 1) ELSE <<>>

CarryBroken(ls) == <<>>
\* line 37: lines = [lines[-1]]
Carry(ls) == <<ls[Len(ls)]>>

\* lines 33 and 40: the artifact name for the current counter.
ArtifactName(k) == FormatName(PATENTS, k - 1)

\* open(name, 'w') followed by the writes: the file is created or replaced.
WriteFile(f, name, content) ==
    [x \in DOMAIN f \cup {name} |-> IF x = name THEN content ELSE f[x]]

CatchesBroken(e) == FALSE
\* line 43: a bare except catches every exception.
Catches(e) == TRUE

\* lines 43-44: an exception raised inside the try block.
Raise(e) ==
    /\ exc' = e
    /\ pc' = "done"
    /\ IF Catches(e)
       THEN out' = Append(out, "cant open") /\ raised' = FALSE
       ELSE out' = out /\ raised' = TRUE

\* The state before split_file is called: only the source file exists.
InitSplit ==
    /\ fs \in { [x \in {SourceName} |-> s] : s \in SeqUpTo(LineSet, MaxLen) }
    /\ pos = 1
    /\ lines = <<>>
    /\ n = 0
    /\ pc = "open"
    /\ out = <<>>
    /\ exc = "none"
    /\ raised = FALSE
    /\ created = <<>>

IdleSplit ==
    /\ fs = <<>> /\ pos = 0 /\ lines = <<>> /\ n = 0 /\ pc = "idle"
    /\ out = <<>> /\ exc = "none" /\ raised = FALSE /\ created = <<>>

\* lines 24-28: files, n, lines are set up and the source is opened.
OpenSource ==
    /\ UNCHANGED <<procVars, userVars>>
    /\ pc = "open"
    /\ pc' = "scan"
    /\ n' = Len(<<>>)
    /\ lines' = <<>>
    /\ pos' = 1
    /\ UNCHANGED <<fs, out, exc, raised, created>>

\* line 28 raises: the source cannot be opened.
OpenSourceFail ==
    /\ UNCHANGED <<procVars, userVars>>
    /\ pc = "open"
    /\ Raise("IOError")
    /\ UNCHANGED <<fs, pos, lines, n, created>>

\* lines 29-31: the first declaration line.
ScanFirstDecl ==
    /\ UNCHANGED <<procVars, userVars>>
    /\ pc = "scan"
    /\ pos <= Len(fs[SourceName])
    /\ LET line == fs[SourceName][pos] IN
        /\ StartsFirst(line, n)
        /\ lines' = Append(lines, line)
        /\ n' = n + 1
    /\ pos' = pos + 1
    /\ UNCHANGED <<fs, pc, out, exc, raised, created>>

\* lines 29-38: a later declaration line flushes the buffer.
ScanNextDecl ==
    /\ UNCHANGED <<procVars, userVars>>
    /\ pc = "scan"
    /\ pos <= Len(fs[SourceName])
    /\ LET line == fs[SourceName][pos]
           ls   == Append(lines, line)
       IN
        /\ ~StartsFirst(line, n)
        /\ IsDecl(line)
        /\ fs' = WriteFile(fs, ArtifactName(n), FlushBody(ls))
        /\ created' = Append(created, ArtifactName(n))
        /\ lines' = Carry(ls)
        /\ n' = n + 1
    /\ pos' = pos + 1
    /\ UNCHANGED <<pc, out, exc, raised>>

\* lines 29-33: a later declaration line, and open(..., 'w') raises.
ScanNextDeclFail ==
    /\ UNCHANGED <<procVars, userVars>>
    /\ pc = "scan"
    /\ pos <= Len(fs[SourceName])
    /\ LET line == fs[SourceName][pos] IN
        /\ ~StartsFirst(line, n)
        /\ IsDecl(line)
        /\ lines' = Append(lines, line)
    /\ pos' = pos + 1
    /\ Raise("IOError")
    /\ UNCHANGED <<fs, n, created>>

\* lines 29-32: any other line is only buffered.
ScanOther ==
    /\ UNCHANGED <<procVars, userVars>>
    /\ pc = "scan"
    /\ pos <= Len(fs[SourceName])
    /\ LET line == fs[SourceName][pos] IN
        /\ ~StartsFirst(line, n)
        /\ ~IsDecl(line)
        /\ lines' = Append(lines, line)
    /\ pos' = pos + 1
    /\ UNCHANGED <<fs, n, pc, out, exc, raised, created>>

\* lines 40-42: at end of input the buffer is written to the last artifact.
Finish ==
    /\ UNCHANGED <<procVars, userVars>>
    /\ pc = "scan"
    /\ pos > Len(fs[SourceName])
    /\ fs' = WriteFile(fs, ArtifactName(n), lines)
    /\ created' = Append(created, ArtifactName(n))
    /\ pc' = "done"
    /\ UNCHANGED <<pos, lines, n, out, exc, raised>>

\* line 40 raises: the last artifact cannot be created.
FinishFail ==
    /\ UNCHANGED <<procVars, userVars>>
    /\ pc = "scan"
    /\ pos > Len(fs[SourceName])
    /\ Raise("IOError")
    /\ UNCHANGED <<fs, pos, lines, n, created>>

NextSplit ==
    \/ OpenSource
    \/ OpenSourceFail
    \/ ScanFirstDecl
    \/ ScanNextDecl
    \/ ScanNextDeclFail
    \/ ScanOther
    \/ Finish
    \/ FinishFail

----------------------------------------------------------------------------
(* Properties of split_file *)

\* The lines of the source file.
Source == fs[SourceName]

\* A declaration line, stated character by character.
HasPrefix(l) ==
    /\ Len(l) >= 5
    /\ l[1] = "<" /\ l[2] = "?" /\ l[3] = "x" /\ l[4] = "m" /\ l[5] = "l"

\* The positions of the declaration lines of s, and their number.
DeclPositions(s) == { i \in 1..Len(s) : HasPrefix(s[i]) }
DeclCount(s) == Cardinality(DeclPositions(s))

\* The i-th smallest element of the set of integers P.
RECURSIVE Nth(_, _)
Nth(P, i) ==
    LET m == CHOOSE x \in P : \A y \in P : x <= y
    IN  IF i = 1 THEN m ELSE Nth(P \ {m}, i - 1)

\* The files other than the source: the artifacts.
Artifacts == DOMAIN fs \ {SourceName}

\* The contents of the artifacts of S, joined in increasing ordinal order.
RECURSIVE ConcatOrd(_)
ConcatOrd(S) ==
    IF S = {} THEN <<>>
    ELSE LET a == CHOOSE x \in S : \A y \in S : x[2] <= y[2]
         IN  fs[a] \o ConcatOrd(S \ {a})

\* split_file has returned and nothing was raised inside it.
Succeeded == pc = "done" /\ exc = "none"

\* C1: a successful run on a file with k >= 1 declaration lines creates
\* exactly k artifacts, wherever the declaration lines are.
C1_ExactlyKArtifacts ==
    (Succeeded /\ DeclCount(Source) >= 1) =>
        /\ Cardinality(Artifacts) = DeclCount(Source)
        /\ Len(created) = DeclCount(Source)

\* C1's case: two or more declaration lines, none of them first in the file.
C1_Witness ==
    /\ Succeeded
    /\ DeclCount(Source) >= 2
    /\ ~HasPrefix(Source[1])
    /\ Cardinality(Artifacts) = DeclCount(Source)

\* C2: every artifact split_file produces starts with a declaration line
\* (stated for the artifacts that have a first line at all).
C2_FirstLineIsDecl ==
    \A a \in Artifacts : fs[a] # <<>> => HasPrefix(fs[a][1])

\* C3: after a successful run the artifacts, joined in ordinal order, are
\* exactly the lines of the source file.
C3_ConcatIsSource ==
    Succeeded => ConcatOrd(Artifacts) = Source

\* C3's case: several artifacts, lines before the first declaration line and
\* lines after the last one.
C3_Witness ==
    /\ Succeeded
    /\ DeclCount(Source) >= 2
    /\ ~HasPrefix(Source[1])
    /\ ~HasPrefix(Source[Len(Source)])
    /\ ConcatOrd(Artifacts) = Source

\* C4: after a successful run that produced N artifacts, the names are
\* "{filename}-{n}" for n = 0..N-1, created in that order, and artifact n
\* holds the (n+1)-th declaration line of the file when there is one.
C4_OrdinalsFromZero ==
    Succeeded =>
        /\ created = [i \in 1..Len(created) |-> FormatName(PATENTS, i - 1)]
        /\ Artifacts = { created[i] : i \in 1..Len(created) }
        /\ \A i \in 1..Len(created) :
              i <= DeclCount(Source) =>
                 \E j \in 1..Len(fs[created[i]]) :
                    /\ fs[created[i]][j] = Source[Nth(DeclPositions(Source), i)]
                    /\ \A h \in 1..(j - 1) : ~HasPrefix(fs[created[i]][h])

\* C5: when the first line is a declaration line, artifact i holds exactly
\* the lines from the (i+1)-th declaration line up to the line before the
\* next declaration line, and the last artifact runs to the end of the file.
C5_Boundaries ==
    (Succeeded /\ Len(Source) > 0 /\ HasPrefix(Source[1])) =>
        LET P == DeclPositions(Source)
            k == Cardinality(P)
        IN  /\ Artifacts = { FormatName(PATENTS, i) : i \in 0..(k - 1) }
            /\ \A i \in 0..(k - 1) :
                  fs[FormatName(PATENTS, i)] =
                     SubSeq(Source, Nth(P, i + 1),
                            IF i + 1 < k THEN Nth(P, i + 2) - 1 ELSE Len(Source))

\* C5's case: three declaration lines, the first line and the last line of
\* the file among them, and a line that is no declaration line.
C5_Witness ==
    /\ Succeeded
    /\ DeclCount(Source) >= 3
    /\ Len(Source) > DeclCount(Source)
    /\ HasPrefix(Source[1])
    /\ HasPrefix(Source[Len(Source)])
    /\ fs[FormatName(PATENTS, DeclCount(Source) - 1)] = <<Source[Len(Source)]>>

\* C6: a run on a file without declaration lines, in which no open fails,
\* prints nothing, raises nothing and leaves exactly one artifact, equal to
\* the whole input.
C6_NoDeclOneArtifact ==
    (Succeeded /\ DeclCount(Source) = 0) =>
        /\ out = <<>>
        /\ ~raised
        /\ Cardinality(Artifacts) = 1
        /\ \A a \in Artifacts : fs[a] = Source

\* C6's case: a file of several lines, one of which holds the prefix but
\* not at its start.
C6_Witness ==
    /\ Succeeded
    /\ DeclCount(Source) = 0
    /\ Len(Source) >= 2
    /\ \E i \in 1..Len(Source) : Source[i] = Inner
    /\ Cardinality(Artifacts) = 1

\* C7: no artifact is empty.
C7_NoEmptyArtifact ==
    \A a \in Artifacts : fs[a] # <<>>

\* C8: a failing open is contained. No step lets an exception out of
\* split_file; the step in which an open fails prints the diagnostic, ends
\* the scan and creates nothing; no step is taken after it; and no step
\* changes a file that exists, the source file included.
C8_FailureContained ==
    [][ /\ exc = "none"
        /\ ~raised'
        /\ exc' # "none" =>
              /\ pc' = "done"
              /\ out' = <<"cant open">>
              /\ fs' = fs
              /\ created' = created
        /\ \A x \in DOMAIN fs : x \in DOMAIN fs' /\ fs'[x] = fs[x]
      ]_vars

\* C8's case: an open failed after two artifacts had been written.
C8_Witness ==
    /\ exc = "IOError"
    /\ pc = "done"
    /\ Len(created) >= 2
    /\ out = <<"cant open">>

----------------------------------------------------------------------------
(* process_file *)

\* Most rows in a table.
MaxRows == 3

\* The file name passed to process_file, "FL-ATL.html".
FileName == <<"F", "L", "-", "A", "T", "L", ".", "h", "t", "m", "l">>

\* The loop condition of line 68 compares the month cell with this text.
TOTAL == <<"T", "O", "T", "A", "L">>

\* The cell texts of a row: year, month, domestic, international.
YearTexts  == { <<"9">>, <<"1", "0">> }
MonthTexts == { <<"1">>, <<"2">>, TOTAL }
DomTexts   == { <<"7">>, <<"1", ",", "0", "5">> }
IntlTexts  == { <<"3">> }
RowSet == { <<y, m, d, i>> : y \in YearTexts, m \in MonthTexts,
                             d \in DomTexts, i \in IntlTexts }

\* f[:6]
Slice6(s) == SubSeq(s, 1, IF Len(s) < 6 THEN Len(s) ELSE 6)

\* s.split("-") for a text with one "-": the parts before and after it.
SplitDash(s) ==
    LET i == CHOOSE j \in 1..Len(s) : s[j] = "-"
    IN  <<SubSeq(s, 1, i - 1), SubSeq(s, i + 1, Len(s))>>

\* text.replace(',', '')
RECURSIVE RemoveCommas(_)
RemoveCommas(t) ==
    IF t = <<>> THEN <<>>
    ELSE IF Head(t) = "," THEN RemoveCommas(Tail(t))
    ELSE <<Head(t)>> \o RemoveCommas(Tail(t))

DigitValue(c) ==
    CASE c = "0" -> 0 [] c = "1" -> 1 [] c = "2" -> 2 [] c = "3" -> 3
      [] c = "4" -> 4 [] c = "5" -> 5 [] c = "6" -> 6 [] c = "7" -> 7
      [] c = "8" -> 8 [] c = "9" -> 9

\* int(text) for a text of decimal digits.
RECURSIVE ToInt(_)
ToInt(t) ==
    IF Len(t) = 1 THEN DigitValue(t[1])
    ELSE 10 * ToInt(SubSeq(t, 1, Len(t) - 1)) + DigitValue(t[Len(t)])

\* d[k] = v on a dictionary, a function from keys to values.
DictSet(d, k, v) == [x \in DOMAIN d \cup {k} |-> IF x = k THEN v ELSE d[x]]

\* The reference of the dictionary `info`, the first one allocated (line 57).
InfoRef == 1

IdleProc ==
    /\ rows = <<>> /\ table = <<>> /\ heap = <<>> /\ data = <<>> /\ ppc = "idle"

InitProc ==
    /\ table \in SeqUpTo(RowSet, MaxRows)
    /\ rows = <<>>
    /\ heap = <<>>
    /\ data = <<>>
    /\ ppc = "start"

\* lines 56-65: data and info are created, the table rows are found.
Enter ==
    /\ UNCHANGED <<splitVars, userVars>>
    /\ ppc = "start"
    /\ LET parts == SplitDash(Slice6(FileName))
           info0 == <<>>
           info1 == DictSet(info0, "courier", parts[1])
           info2 == DictSet(info1, "airport", parts[2])
       IN  heap' = <<info2>>
    /\ data' = <<>>
    /\ rows' = table
    /\ ppc' = "loop"
    /\ UNCHANGED table

\* lines 66-74: a row whose month cell is not 'TOTAL'.
RowEntry ==
    /\ UNCHANGED <<splitVars, userVars>>
    /\ ppc = "loop"
    /\ rows # <<>>
    /\ LET entryData == Head(rows)
           flightsRef == Len(heap) + 1
           flights0 == <<>>
           flights1 == DictSet(flights0, "domestic",
                               ToInt(RemoveCommas(entryData[3])))
           flights2 == DictSet(flights1, "international",
                               ToInt(RemoveCommas(entryData[4])))
           info1 == DictSet(heap[InfoRef], "year", ToInt(entryData[1]))
           info2 == DictSet(info1, "month", ToInt(entryData[2]))
           info3 == DictSet(info2, "flights", flightsRef)
           h == Append([heap EXCEPT ![InfoRef] = info3], flights2)
       IN
        /\ entryData[2] # TOTAL
        /\ heap' = h
        /\ data' = Append(data, InfoRef)
    /\ rows' = Tail(rows)
    /\ UNCHANGED <<table, ppc>>

\* lines 66-68: a row whose month cell is 'TOTAL' is skipped.
RowTotal ==
    /\ UNCHANGED <<splitVars, userVars>>
    /\ ppc = "loop"
    /\ rows # <<>>
    /\ Head(rows)[2] = TOTAL
    /\ rows' = Tail(rows)
    /\ UNCHANGED <<table, heap, data, ppc>>

\* line 76: return data
ReturnData ==
    /\ UNCHANGED <<splitVars, userVars>>
    /\ ppc = "loop"
    /\ rows = <<>>
    /\ ppc' = "done"
    /\ UNCHANGED <<rows, table, heap, data>>

NextProc ==
    \/ Enter
    \/ RowEntry
    \/ RowTotal
    \/ ReturnData

----------------------------------------------------------------------------
(* Properties of process_file *)

\* The rows of the table whose month cell is not 'TOTAL', in row order.
RECURSIVE Kept(_)
Kept(t) ==
    IF t = <<>> THEN <<>>
    ELSE IF Head(t)[2] = TOTAL THEN Kept(Tail(t))
    ELSE <<Head(t)>> \o Kept(Tail(t))

\* C9: the returned list has one dictionary per row that is not a TOTAL row,
\* in row order, and the i-th dictionary holds the i-th such row's year,
\* month, domestic and international values.
C9_EntriesKeepTheirRow ==
    ppc = "done" =>
        /\ Len(data) = Len(Kept(table))
        /\ \A i \in 1..Len(data) :
              LET entry == heap[data[i]]
                  row   == Kept(table)[i]
              IN  /\ entry["year"] = ToInt(row[1])
                  /\ entry["month"] = ToInt(row[2])
                  /\ heap[entry["flights"]]["domestic"] = ToInt(RemoveCommas(row[3]))
                  /\ heap[entry["flights"]]["international"] = ToInt(RemoveCommas(row[4]))

----------------------------------------------------------------------------
(* process_map *)

\* Most elements in a document.
MaxNodes == 4

\* The attribute sets an element may carry.
AttribSets == { {}, {<<"uid", "1">>}, {<<"uid", "2">>}, {<<"user", "1">>} }

\* The documents of m elements: element 1 is the root, every other element
\* has an earlier element as its parent; siblings are in document order.
Documents(m) ==
    { p \in [1..m -> 0..(m - 1)] :
         /\ p[1] = 0
         /\ \A i \in 2..m : p[i] \in 1..(i - 1) }

\* The child elements of e, which iterating over an element yields.
Children(e) == { c \in DOMAIN parent : parent[c] = e }

\* The order of iterparse's "end" events: every element after its children.
RECURSIVE EndOrder(_), EndOrderAll(_)
EndOrderAll(S) ==
    IF S = {} THEN <<>>
    ELSE LET m == CHOOSE x \in S : \A y \in S : x <= y
         IN  EndOrder(m) \o EndOrderAll(S \ {m})
EndOrder(e) == EndOrderAll(Children(e)) \o <<e>>

\* {e.attrib['uid']} if 'uid' in e.attrib, else the empty set.
UidOf(e) == { a[2] : a \in { b \in attrib[e] : b[1] = "uid" } }

\* get_user of 06-openstreetmap-data/users.py: the element's own uid and
\* the uids of its children.
GetUser06(e) == UidOf(e) \cup UNION { UidOf(c) : c \in Children(e) }

\* get_user of users.py: the uids of the element's children.
GetUserTop(e) == UNION { UidOf(c) : c \in Children(e) }

get_user(e) == IF script = "osm06" THEN GetUser06(e) ELSE GetUserTop(e)

IdleUsers ==
    /\ script = "none" /\ parent = <<>> /\ attrib = <<>> /\ events = <<>>
    /\ users = {} /\ upc = "idle"

InitUsers ==
    /\ script \in {"osm06", "top"}
    /\ \E m \in 1..MaxNodes :
          /\ parent \in Documents(m)
          /\ attrib \in [1..m -> AttribSets]
    /\ events = <<>>
    /\ users = {}
    /\ upc = "start"

\* users = set(), and iterparse starts on the file.
StartParse ==
    /\ UNCHANGED <<splitVars, procVars>>
    /\ upc = "start"
    /\ users' = {}
    /\ events' = EndOrder(1)
    /\ upc' = "loop"
    /\ UNCHANGED <<script, parent, attrib>>

\* One iteration of the loop: users = get_user(element).
Visit ==
    /\ UNCHANGED <<splitVars, procVars>>
    /\ upc = "loop"
    /\ events # <<>>
    /\ users' = get_user(Head(events))
    /\ events' = Tail(events)
    /\ UNCHANGED <<script, parent, attrib, upc>>

\* return users
ReturnUsers ==
    /\ UNCHANGED <<splitVars, procVars>>
    /\ upc = "loop"
    /\ events = <<>>
    /\ upc' = "done"
    /\ UNCHANGED <<script, parent, attrib, events, users>>

NextUsers ==
    \/ StartParse
    \/ Visit
    \/ ReturnUsers

----------------------------------------------------------------------------
(* Properties of process_map *)

\* The uid values carried by the elements of the document.
AllUids == UNION { UidOf(e) : e \in DOMAIN parent }

\* C10: process_map (of 06-openstreetmap-data/users.py) returns exactly the
\* uid values carried by the elements of the document, at whatever depth.
C10_AllUidsReturned ==
    (upc = "done" /\ script = "osm06") => users = AllUids

----------------------------------------------------------------------------
(* Specifications *)

InitS == InitSplit /\ IdleProc /\ IdleUsers
SpecSplit == InitS /\ [][NextSplit]_vars

InitP == IdleSplit /\ InitProc /\ IdleUsers
SpecProcess == InitP /\ [][NextProc]_vars

InitU == IdleSplit /\ IdleProc /\ InitUsers
SpecUsers == InitU /\ [][NextUsers]_vars
====
